---- MODULE Spec2Model ----
(***************************************************************************)
(* Model of the `sup` extension module (src/src/lib.rs):                   *)
(*   - RipGrep::new / RipGrep::search with search_file_impl and            *)
(*     search_directory_impl, over a small file system;                    *)
(*   - run_ripgrep / get_ripgrep_path sharing the cached binary in the     *)
(*     temporary directory, called from several threads.                   *)
(* Text is modelled as sequences of one-character strings.                 *)
(***************************************************************************)
EXTENDS Integers, Sequences, FiniteSets, TLC

(* ------------------------------ bounds --------------------------------- *)
\* longest file body, in lines
MaxLines == 2
\* how many entries of the tree may be unreadable at once
MaxUnreadable == 1
\* how many times search is called on one RipGrep object
MaxCalls == 2

(* --------------------------- text and regex ---------------------------- *)
LF == "\n"
CR == "\r"
SP == " "
TAB == "\t"
\* a byte that is not UTF-8
BAD == "<FF>"

Range(s) == { s[k] : k \in DOMAIN s }

\* char::is_whitespace, restricted to the characters of the model
IsWhitespace(c) == c \in {SP, TAB, CR, LF}

RECURSIVE Flatten(_)
Flatten(ss) == IF ss = <<>> THEN <<>> ELSE Head(ss) \o Flatten(Tail(ss))

\* Patterns a caller may pass: literals and groups, some malformed.
Patterns == { <<"a">>, <<"(", "b", ")">>, <<"(">>, <<"a", ")">> }

\* Nesting depth after reading p, or -1 once a ")" closes nothing.
RECURSIVE ParenDepth(_, _)
ParenDepth(p, d) ==
    IF d < 0 THEN -1
    ELSE IF p = <<>> THEN d
    ELSE ParenDepth(Tail(p), CASE Head(p) = "(" -> d + 1
                               [] Head(p) = ")" -> d - 1
                               [] OTHER -> d)

\* Mutant: no pattern is rejected.
RegexMatcherNewAcceptsAll(p) == TRUE

\* RegexMatcher::new(&pattern) is Ok: the pattern parses.
RegexMatcherNew(p) == ParenDepth(p, 0) = 0

\* The literal a (valid) pattern of the model denotes: its groups removed.
Literal(p) == SelectSeq(p, LAMBDA c : c \notin {"(", ")"})

\* The matcher finds its literal somewhere in the line.
IsMatch(p, line) ==
    LET lit == Literal(p) IN
    \E i \in 1..(Len(line) - Len(lit) + 1) :
        SubSeq(line, i, i + Len(lit) - 1) = lit

\* str::trim_end: every trailing whitespace character is removed.
RECURSIVE TrimEnd(_)
TrimEnd(s) ==
    IF s # <<>> /\ IsWhitespace(s[Len(s)])
    THEN TrimEnd(SubSeq(s, 1, Len(s) - 1))
    ELSE s

(* ----------------------------- file system ----------------------------- *)
Root == "d"
Missing == "nope"
Dirs == {"d", "d/sub"}
Files == {"d/a.txt", "d/b.log", "d/.h.txt", "d/sub/c.txt"}
Parent == ("d/a.txt" :> "d") @@ ("d/b.log" :> "d") @@ ("d/.h.txt" :> "d")
          @@ ("d/sub" :> "d") @@ ("d/sub/c.txt" :> "d/sub")
NonRoot == DOMAIN Parent

\* A line of a file: its text and its terminator ("" only at end of file).
Line(text, term) == [text |-> text, term |-> term]
Terminated == { Line(<<"a">>, <<LF>>), Line(<<"b", SP>>, <<LF>>),
                Line(<<"a", "b", TAB>>, <<CR, LF>>), Line(<<"b", BAD>>, <<LF>>) }
Unterminated == { Line(<<"b", "a">>, <<>>) }

RECURSIVE SeqsUpTo(_, _)
SeqsUpTo(S, n) ==
    IF n = 0 THEN { <<>> }
    ELSE LET shorter == SeqsUpTo(S, n - 1) IN
         shorter \cup { Append(s, x) : s \in shorter, x \in S }

\* File bodies: terminated lines, the last one possibly unterminated.
Bodies ==
    LET full == SeqsUpTo(Terminated, MaxLines) IN
    full \cup { Append(s, u) : s \in { t \in full : Len(t) < MaxLines },
                               u \in Unterminated }

SubBody == << Line(<<"b">>, <<LF>>), Line(<<"a">>, <<LF>>) >>

\* The bytes of a file, as the searcher reads them.
Bytes(body) == Flatten([i \in 1..Len(body) |-> body[i].text \o body[i].term])

\* The trees searched: the whole tree, or d holding one file only.
Trees == { NonRoot } \cup { {f} : f \in {"d/a.txt", "d/b.log", "d/.h.txt"} }

(* ------------------------------- state --------------------------------- *)
VARIABLES
    present,     \* the entries that exist under d
    unreadable,  \* entries whose open / read_dir fails
    body,        \* the body of every file directly under d
    pattern,     \* the string passed to RipGrep(...), NoPattern before
    self,        \* the RipGrep object: NoObject, or [pattern |-> p]
    state,       \* where the search stands, in the words of the design
    error,       \* the exception the last call raised, or "none"
    target,      \* the path of the search in progress
    mode,        \* what search found at the path: "file", "dir", "none"
    results,     \* the PyList being filled
    stack,       \* the walker: per open directory, what is left to yield
    stderr,      \* paths reported by eprintln! during the last call
    accessed,    \* paths the last call asked the file system about
    calls,       \* searches started on the object
    prev,        \* the previous finished search: target, outcome, list
    cache,       \* the cached binary in the temporary directory
    tcall,       \* per thread: the function it runs
    tpc,         \* per thread: where it stands in that function
    woff,        \* per thread: chunks its write_all has written
    saw          \* per thread: the file as launched / as returned

searchVars == << present, unreadable, body, pattern, self, state, error, target, mode,
                 results, stack, stderr, accessed, calls, prev >>
cacheVars == << cache, tcall, tpc, woff, saw >>
vars == << searchVars, cacheVars >>

NoPattern == <<"none">>
NoObject == [pattern |-> NoPattern, built |-> FALSE]
NoCall == [target |-> "", outcome |-> "none", list |-> <<>>]

Content(f) == IF Parent[f] = Root THEN body ELSE SubBody

(* ------------------------- grep_searcher, ignore ----------------------- *)
\* Searcher: the bytes cut after every line feed; a last line may lack one.
RECURSIVE SplitLines(_, _)
SplitLines(bytes, cur) ==
    IF bytes = <<>> THEN (IF cur = <<>> THEN <<>> ELSE << cur >>)
    ELSE IF Head(bytes) = LF
         THEN << Append(cur, LF) >> \o SplitLines(Tail(bytes), <<>>)
         ELSE SplitLines(Tail(bytes), Append(cur, Head(bytes)))

\* Searcher: the matching lines with their numbers, in file order.
MatchedLines(pat, path, bytes) ==
    LET ls == SplitLines(bytes, <<>>)
        all == [i \in 1..Len(ls) |->
                   [file |-> path, line_number |-> i, line |-> ls[i]]]
    IN SelectSeq(all, LAMBDA m : IsMatch(pat, m.line))

\* str::from_utf8 on the bytes of a match
ValidUtf8(line) == BAD \notin Range(line)

\* The UTF8 sink over the matches of one file: each match is pushed by the
\* closure until one is not UTF-8, which ends the search with an error.
SinkUTF8(ms) ==
    LET bad == { k \in DOMAIN ms : ~ValidUtf8(ms[k].line) }
        first == IF bad = {} THEN Len(ms) + 1
                 ELSE CHOOSE k \in bad : \A j \in bad : k <= j
    IN [ok |-> bad = {}, matches |-> SubSeq(ms, 1, first - 1)]

\* searcher.search_path(matcher, path, sink): Err when the file cannot be
\* read or the sink fails.
SearchPath(pat, path) ==
    IF path \in unreadable
    THEN [ok |-> FALSE, matches |-> <<>>]
    ELSE SinkUTF8(MatchedLines(pat, path, Bytes(Content(path))))

\* The stored line of a match.
StoredLine(line) == TrimEnd(line)

\* The dicts appended to the list for the collected matches.
ToDicts(matches) ==
    [i \in 1..Len(matches) |->
        [file |-> matches[i].file, line_number |-> matches[i].line_number,
         line |-> StoredLine(matches[i].line)]]

\* Mutant: a failing scan empties the list it was given.
SearchFileImplClearing(pat, path, list) ==
    LET r == SearchPath(pat, path) IN
    IF r.ok THEN [ok |-> TRUE, list |-> list \o ToDicts(r.matches)]
    ELSE [ok |-> FALSE, list |-> <<>>]

\* search_file_impl: Err from search_path leaves the list as it was, else
\* the matches are appended to it.
SearchFileImpl(pat, path, list) ==
    LET r == SearchPath(pat, path) IN
    IF r.ok THEN [ok |-> TRUE, list |-> list \o ToDicts(r.matches)]
    ELSE [ok |-> FALSE, list |-> list]

\* Defaults of WalkBuilder: names starting with a dot, and ignore rules.
Hidden(p) == p \in {"d/.h.txt"}
Ignored(p) == p \in {"d/b.log"}
\* Mutant: ignore rules are not applied.
SkippedHiddenOnly(p) == Hidden(p)

\* The walker drops a child the policy excludes.
Skipped(p) == Hidden(p) \/ Ignored(p)

Entry(p) == [kind |-> "entry", path |-> p]
WalkErr(p) == [kind |-> "err", path |-> p]

\* Mutant: the walk does not descend (max_depth(0)).
OpenedNothing(p) == {}

\* What opening directory p leaves to yield: an error, or its kept children.
Opened(p) ==
    IF p \in unreadable THEN { WalkErr(p) }
    ELSE { Entry(c) : c \in { q \in present : Parent[q] = p /\ ~Skipped(q) } }

\* Exhausted directories are left.
RECURSIVE PopEmpty(_)
PopEmpty(st) == IF st # <<>> /\ Head(st) = {} THEN PopEmpty(Tail(st)) ELSE st

IsFile(p) == p \in present /\ p \in Files
IsDir(p) == p = Root \/ (p \in present /\ p \in Dirs)

(* ------------------------------- Init ---------------------------------- *)
InitSearch ==
    /\ present \in Trees
    /\ unreadable \in { u \in SUBSET (present \cup {Root}) :
                          Cardinality(u) <= MaxUnreadable }
    /\ body \in Bodies
    /\ pattern = NoPattern
    /\ self = NoObject
    /\ state = "Uninitialized"
    /\ error = "none"
    /\ target = ""
    /\ mode = "none"
    /\ results = <<>>
    /\ stack = <<>>
    /\ stderr = <<>>
    /\ accessed = {}
    /\ calls = 0
    /\ prev = NoCall

(* ------------------------------ RipGrep -------------------------------- *)
\* RipGrep::new(pattern)
New(p) ==
    /\ state = "Uninitialized"
    /\ pattern' = p
    /\ IF RegexMatcherNew(p)
       THEN /\ self' = [pattern |-> p, built |-> TRUE]
            /\ state' = "PatternCompiled"
            /\ error' = "none"
       ELSE /\ self' = self
            /\ state' = "Failed"
            /\ error' = "ValueError"
    /\ UNCHANGED << present, unreadable, body, target, mode, results, stack,
                    stderr, accessed, calls, prev >>
    /\ UNCHANGED cacheVars

\* Paths a caller searches.
Targets == {Root, Missing} \cup { q \in present : Parent[q] = Root }

\* RipGrep::search(path), up to the choice of a branch
Search(path) ==
    /\ self.built
    /\ state \in {"PatternCompiled", "Completed", "Failed"}
    /\ calls < MaxCalls
    /\ calls' = calls + 1
    /\ target' = path
    /\ results' = <<>>
    /\ stderr' = <<>>
    /\ IF ~RegexMatcherNew(self.pattern)
       THEN /\ state' = "Failed"
            /\ error' = "ValueError"
            /\ UNCHANGED << mode, stack, accessed >>
       ELSE /\ state' = "Traversing"
            /\ error' = "none"
            /\ accessed' = {path}
            /\ mode' = IF IsFile(path) THEN "file"
                       ELSE IF IsDir(path) THEN "dir" ELSE "none"
            /\ stack' = IF ~IsFile(path) /\ IsDir(path)
                        THEN << {Entry(path)} >> ELSE <<>>
    /\ prev' = IF state = "PatternCompiled" THEN NoCall
               ELSE [target |-> target,
                     outcome |-> IF state = "Completed" THEN "ok" ELSE error,
                     list |-> IF state = "Completed" THEN results ELSE <<>>]
    /\ UNCHANGED << present, unreadable, body, pattern, self >>
    /\ UNCHANGED cacheVars

\* search: the path is a file, search_file_impl(...)? and return
SearchFile ==
    /\ state = "Traversing" /\ mode = "file"
    /\ LET r == SearchFileImpl(self.pattern, target, results) IN
       /\ results' = r.list
       /\ state' = IF r.ok THEN "Completed" ELSE "Failed"
       /\ error' = IF r.ok THEN "none" ELSE "IOError: Search error"
    /\ accessed' = accessed \cup {target}
    /\ UNCHANGED << present, unreadable, body, pattern, self, target, mode, stack,
                    stderr, calls, prev >>
    /\ UNCHANGED cacheVars

\* search: the path is neither a file nor a directory, return the empty list
SearchNothing ==
    /\ state = "Traversing" /\ mode = "none"
    /\ state' = "Completed"
    /\ UNCHANGED << present, unreadable, body, pattern, self, error, target, mode,
                    results, stack, stderr, accessed, calls, prev >>
    /\ UNCHANGED cacheVars

\* Mutant: the failure is swallowed silently.
EprintlnNothing(log, path) == log

\* eprintln!("Error searching {}: {}", ...)
Eprintln(log, path) == Append(log, path)

\* search_directory_impl: one turn of `for entry in walker`
WalkNext ==
    /\ state = "Traversing" /\ mode = "dir"
    /\ stack # <<>>
    /\ \E item \in Head(stack) :
         LET rest == << Head(stack) \ {item} >> \o Tail(stack) IN
         /\ accessed' = accessed \cup {item.path}
         /\ IF item.kind = "err"
            THEN /\ state' = "Failed"
                 /\ error' = "IOError: Walk error"
                 /\ stack' = <<>>
                 /\ UNCHANGED << results, stderr >>
            ELSE IF item.path \in Files
                 THEN LET r == SearchFileImpl(self.pattern, item.path, results) IN
                      /\ results' = r.list
                      /\ stderr' = IF r.ok THEN stderr
                                   ELSE Eprintln(stderr, item.path)
                      /\ stack' = PopEmpty(rest)
                      /\ UNCHANGED << state, error >>
                 ELSE /\ stack' = PopEmpty(<< Opened(item.path) >> \o rest)
                      /\ UNCHANGED << state, error, results, stderr >>
    /\ UNCHANGED << present, unreadable, body, pattern, self, target, mode, calls, prev >>
    /\ UNCHANGED cacheVars

\* search_directory_impl: the walker is exhausted, Ok(()) and return
WalkDone ==
    /\ state = "Traversing" /\ mode = "dir"
    /\ stack = <<>>
    /\ state' = "Completed"
    /\ UNCHANGED << present, unreadable, body, pattern, self, error, target, mode,
                    results, stack, stderr, accessed, calls, prev >>
    /\ UNCHANGED cacheVars

(* --------------------------- the cached binary ------------------------- *)
\* chunks written by one write_all of RIPGREP_BINARY
BinLen == 2
\* threads calling into the module
NThreads == 2
Threads == 1..NThreads

NoFile == [exists |-> FALSE, chunks |-> {}, exec |-> FALSE]
NotSeen == [seen |-> FALSE, complete |-> FALSE, exec |-> FALSE]
Complete(f) == f.exists /\ f.chunks = 1..BinLen
Snapshot(f) == [seen |-> TRUE, complete |-> Complete(f), exec |-> f.exec]

InitCache ==
    /\ cache \in { f \in [exists : BOOLEAN, chunks : SUBSET (1..BinLen),
                          exec : BOOLEAN] : ~f.exists => f = NoFile }
    /\ tcall = [t \in Threads |-> "none"]
    /\ tpc = [t \in Threads |-> "idle"]
    /\ woff = [t \in Threads |-> 0]
    /\ saw = [t \in Threads |-> NotSeen]

\* Where run_ripgrep goes after `if !binary_path.exists()`.
RunAfterExists(f) == IF f.exists THEN "chmod" ELSE "create"
\* Where get_ripgrep_path goes after `if !binary_path.exists()`.
PathAfterExists(f) == IF f.exists THEN "return" ELSE "create"

\* run_ripgrep, to the test of binary_path.exists()
RunRipgrepEnter(t) ==
    /\ tpc[t] = "idle"
    /\ tcall' = [tcall EXCEPT ![t] = "run_ripgrep"]
    /\ tpc' = [tpc EXCEPT ![t] = RunAfterExists(cache)]
    /\ UNCHANGED << cache, woff, saw >>
    /\ UNCHANGED searchVars

\* get_ripgrep_path, to the test of binary_path.exists()
GetRipgrepPathEnter(t) ==
    /\ tpc[t] = "idle"
    /\ tcall' = [tcall EXCEPT ![t] = "get_ripgrep_path"]
    /\ tpc' = [tpc EXCEPT ![t] = PathAfterExists(cache)]
    /\ UNCHANGED << cache, woff, saw >>
    /\ UNCHANGED searchVars

\* fs::write: the file is created, or truncated when it is there
Create(t) ==
    /\ tpc[t] = "create"
    /\ cache' = [exists |-> TRUE, chunks |-> {}, exec |-> cache.exec]
    /\ tpc' = [tpc EXCEPT ![t] = "write"]
    /\ woff' = [woff EXCEPT ![t] = 0]
    /\ UNCHANGED << tcall, saw >>
    /\ UNCHANGED searchVars

\* fs::write: write_all puts the next chunk at this writer's offset
WriteChunk(t) ==
    /\ tpc[t] = "write"
    /\ cache' = [cache EXCEPT !.chunks = @ \cup {woff[t] + 1}]
    /\ woff' = [woff EXCEPT ![t] = @ + 1]
    /\ tpc' = [tpc EXCEPT ![t] = IF woff[t] + 1 = BinLen THEN "chmod" ELSE "write"]
    /\ UNCHANGED << tcall, saw >>
    /\ UNCHANGED searchVars

\* fs::metadata, set_mode(0o755), fs::set_permissions
SetPermissions(t) ==
    /\ tpc[t] = "chmod"
    /\ cache' = [cache EXCEPT !.exec = TRUE]
    /\ tpc' = [tpc EXCEPT ![t] = IF tcall[t] = "run_ripgrep" THEN "launch"
                                 ELSE "return"]
    /\ UNCHANGED << tcall, woff, saw >>
    /\ UNCHANGED searchVars

\* run_ripgrep: Command::new(&binary_path).args(args).output()
Launch(t) ==
    /\ tpc[t] = "launch"
    /\ saw' = [saw EXCEPT ![t] = Snapshot(cache)]
    /\ tpc' = [tpc EXCEPT ![t] = "done"]
    /\ UNCHANGED << cache, tcall, woff >>
    /\ UNCHANGED searchVars

\* get_ripgrep_path: Ok(binary_path...)
ReturnPath(t) ==
    /\ tpc[t] = "return"
    /\ saw' = [saw EXCEPT ![t] = Snapshot(cache)]
    /\ tpc' = [tpc EXCEPT ![t] = "done"]
    /\ UNCHANGED << cache, tcall, woff >>
    /\ UNCHANGED searchVars

(* --------------------------- specifications ---------------------------- *)
\* Searches of one RipGrep object; nobody touches the cached binary.
Init ==
    /\ InitSearch
    /\ cache = NoFile
    /\ tcall = [t \in Threads |-> "none"]
    /\ tpc = [t \in Threads |-> "idle"]
    /\ woff = [t \in Threads |-> 0]
    /\ saw = [t \in Threads |-> NotSeen]

Next ==
    \/ \E p \in Patterns : New(p)
    \/ \E path \in Targets : Search(path)
    \/ SearchFile
    \/ SearchNothing
    \/ WalkNext
    \/ WalkDone

Spec == Init /\ [][Next]_vars

\* Threads calling run_ripgrep and get_ripgrep_path; no search runs.
InitThreads ==
    /\ InitCache
    /\ present = NonRoot
    /\ unreadable = {}
    /\ body = <<>>
    /\ pattern = NoPattern
    /\ self = NoObject
    /\ state = "Uninitialized"
    /\ error = "none"
    /\ target = ""
    /\ mode = "none"
    /\ results = <<>>
    /\ stack = <<>>
    /\ stderr = <<>>
    /\ accessed = {}
    /\ calls = 0
    /\ prev = NoCall

NextThreads ==
    \E t \in Threads :
        \/ RunRipgrepEnter(t)
        \/ GetRipgrepPathEnter(t)
        \/ Create(t)
        \/ WriteChunk(t)
        \/ SetPermissions(t)
        \/ Launch(t)
        \/ ReturnPath(t)

SpecThreads == InitThreads /\ [][NextThreads]_vars

(* ------------------------------- claims -------------------------------- *)
\* What the caller holds once a call has ended.
Ended == state \in {"Completed", "Failed"} /\ calls > 0
Outcome == IF state = "Completed" THEN "ok" ELSE error
Returned == IF state = "Completed" THEN results ELSE <<>>
\* The malformed patterns and the excluded paths, listed
InvalidPatterns == { <<"(">>, <<"a", ")">> }
PolicyExcluded == {"d/.h.txt", "d/b.log"}

\* Positions of the lines of file f that match the object's pattern.
MatchingLines(f) ==
    { i \in 1..Len(Content(f)) : IsMatch(self.pattern, Content(f)[i].text) }

\* C1: an invalid pattern ends in the invalid-pattern error with no object
\* built, no search started, no path of the file system asked about and no
\* list returned.
C1_InvalidPatternBeforeAccess ==
    (pattern \in InvalidPatterns) =>
        /\ state = "Failed" /\ error = "ValueError"
        /\ ~self.built /\ calls = 0
        /\ accessed = {} /\ mode = "none" /\ stack = <<>> /\ results = <<>>

C1_Witness ==
    pattern \in InvalidPatterns /\ state = "Failed" /\ error = "ValueError"

\* The scan of file f fails: it cannot be read, or a matching line of it
\* is not UTF-8.
ScanFails(f) ==
    \/ f \in unreadable
    \/ \E i \in MatchingLines(f) : BAD \in Range(Content(f)[i].text)

\* C2: the search of a readable file ends with one record per matching
\* line, its line_number the 1-based position of the line, in strictly
\* ascending order.
C2_RecordPerMatchingLine ==
    (mode = "file" /\ Ended /\ target \notin unreadable) =>
        /\ state = "Completed"
        /\ Len(results) = Cardinality(MatchingLines(target))
        /\ { r.line_number : r \in Range(results) } = MatchingLines(target)
        /\ \A k \in 1..(Len(results) - 1) :
               results[k].line_number < results[k + 1].line_number

\* The files of the walk scanned so far whose own scan did not fail.
ScannedReadable == { f \in accessed \cap Files : ~ScanFails(f) }
RecordsOf(f) == SelectSeq(results, LAMBDA r : r.file = f)

C4_OnlyRootWalkErrorFatal ==
    (mode = "dir" /\ state = "Failed") => target \in unreadable

PairOf(f) ==
    /\ present = {f} /\ Ended /\ prev.outcome # "none"
    /\ {prev.target, target} = {f, Root}

\* C6 as claimed: the two searches end alike with identical records,
\* whatever the file (hidden, ignored, unreadable), the directory being one
\* that can be listed.
C6_FileAndDirectoryAgree ==
    \A f \in Files : (PairOf(f) /\ Root \notin unreadable) =>
        /\ Outcome = prev.outcome
        /\ Returned = prev.list

\* C6 as amended: for a file the walk policy does not exclude, in a readable
\* directory, the two searches yield identical records, and both succeed
\* when the scan of the file does not fail.
C6_AgreeUnlessExcluded ==
    \A f \in Files :
        (PairOf(f) /\ f \notin PolicyExcluded /\ Root \notin unreadable) =>
            /\ Returned = prev.list
            /\ ~ScanFails(f) => (Outcome = "ok" /\ prev.outcome = "ok")

C6_Witness ==
    /\ PairOf("d/a.txt") /\ unreadable = {}
    /\ Returned # <<>> /\ Returned = prev.list

\* Whether q lies under directory d.
RECURSIVE Under(_, _)
Under(q, d) == q \in NonRoot /\ (Parent[q] = d \/ Under(Parent[q], d))

\* C7: no record of a directory search names an excluded path or anything
\* but a plain file under the searched root.
C7_NoExcludedFile ==
    (mode = "dir") =>
        \A r \in Range(results) :
            /\ r.file \notin PolicyExcluded
            /\ r.file \in Files \cap present
            /\ Under(r.file, target)

C7_Witness ==
    /\ mode = "dir" /\ state = "Completed" /\ present = NonRoot
    /\ unreadable = {} /\ results # <<>>
    /\ MatchingLines("d/b.log") # {} /\ MatchingLines("d/.h.txt") # {}

\* C8: the line of a record is the text of its line of the file, less the
\* line terminator and nothing else.
C8_LineLessTerminator ==
    \A r \in Range(results) :
        /\ r.line_number \in 1..Len(Content(r.file))
        /\ r.line = Content(r.file)[r.line_number].text

\* C9: Uninitialized -> PatternCompiled -> Traversing -> Completed, and
\* Failed is entered from Uninitialized only.
C9_FailedOnlyFromUninitialized ==
    [][ /\ (state = "Uninitialized" /\ state' # state)
            => state' \in {"PatternCompiled", "Failed"}
        /\ (state = "PatternCompiled" /\ state' # state)
            => state' = "Traversing"
        /\ (state = "Traversing" /\ state' # state)
            => state' = "Completed" ]_vars

\* C10: a launched or returned path names a complete, executable file.
C10_CompleteAndExecutable ==
    \A t \in Threads : saw[t].seen => (saw[t].complete /\ saw[t].exec)

====
